---- MODULE Spec2Model ----
(***************************************************************************)
(* scripts/run_topology/run_topology.py, in two specifications.            *)
(*                                                                         *)
(* Spec (FairSpec with the interpreter's scheduling): the process          *)
(* supervisor, i.e. the main loop of main(), its SIGCHLD handler _chld,     *)
(* the SIGINT handler of mk_sigint_event and the SIGUSR1 handler reboot,    *)
(* together with the operating system's view of the worker processes it     *)
(* forks.  Python runs a signal handler on the main thread, between two     *)
(* steps of the main loop: while _chld is active (hpc # "idle") the main    *)
(* loop does not advance.  An exception leaving a handler propagates into   *)
(* the main loop, which catches nothing but queue.Empty, and ends the       *)
(* supervisor (supErr).                                                     *)
(*                                                                         *)
(* WorkerSpec: one worker process from its entry point worker() through     *)
(* the registry dispatch into map_worker or custom_worker, for every        *)
(* worker definition, source script and raising target of the bounds.       *)
(***************************************************************************)
EXTENDS Integers, Sequences, FiniteSets, TLC

\* ---------------------------------------------------------------- bounds
\* Number of worker names in the topology's "workers" list.
NumWorkers == 2
\* Longest scripted sequence of checkouts a map worker's source yields.
MaxScriptLen == 4
\* Checkouts from the source after its script has run out (the queue is
\* then empty for good and every checkout yields None).
MaxIdle == 1

WorkerName(i) == <<"w", i>>
WorkerNames == {WorkerName(i) : i \in 1 .. NumWorkers}
\* The system's process identifiers: one more than there are workers, so
\* that fork always finds a free one and a pid is reused once its process
\* has been reaped.
PidSet == 1 .. (NumWorkers + 1)
\* config.get("workers"): the ordered seed list.
SeedList == [i \in 1 .. NumWorkers |-> WorkerName(i)]

\* None, where a name is expected.
NoName == << >>
\* The pid 0 of waitpid's "nothing to report"; no process has it.
\* time.sleep(5): the length of the main loop's sleep, in ticks.
SleepInterval == 5

NoPid == 0

\* ------------------------------------------------------------- the state
VARIABLES
  restarts,     \* Queue(): the names awaiting a new process, FIFO
  qmutex,       \* the Queue's (non-reentrant) mutex is held by get_nowait
  children,     \* dict pid -> worker name
  event,        \* the supervisor's threading.Event of mk_sigint_event
  pc,           \* position of the main loop
  worker_name,  \* local of the spawn loop
  ps,           \* pid of the Process just started (ps.pid)
  slept,        \* ticks of the current time.sleep(5) that have elapsed
  hpc,          \* position of _chld ("idle" when not running)
  pid,          \* local of _chld
  job,          \* local of _chld
  chldPending,  \* a SIGCHLD is pending (signals of one kind coalesce)
  procs,        \* the system's process table: pid -> process state
  procName,     \* the name each process was forked to run
  wflags,       \* pid -> the threading.Event of that worker process is set
  supErr,       \* "none", or the exception that ended the supervisor
  pgrpSignalled,\* os.kill of reboot has been executed
  execs,        \* number of os.execv calls executed
  \* one worker process, from its entry point worker(opts, target_name):
  wdef,         \* config.get(target_name).dict(): the worker definition
  script,       \* what source.get() yields, call after call
  raisesOn,     \* the items on which the target callable raises
  wpc,          \* position of the worker process
  wevent,       \* the worker's own threading.Event of mk_sigint_event
  taken,        \* number of source.get() calls made
  item,         \* local of map_worker
  wlog,         \* what the process did: target calls, returns, sleeps
  wexit         \* "none", "returned", or the exception that ended it

supVars == <<restarts, qmutex, children, event, pc, worker_name, ps, slept, hpc, pid, job,
             chldPending, procs, procName, wflags, supErr, pgrpSignalled, execs>>
workerVars == <<wdef, script, raisesOn, wpc, wevent, taken, item, wlog, wexit>>
vars == <<supVars, workerVars>>

mainVars == <<pc, worker_name, ps, slept>>
chldVars == <<hpc, pid, job>>
osVars == <<procs, procName, wflags, chldPending>>
rebootVars == <<pgrpSignalled, execs>>

\* ------------------------------------------------- process states (OS)
\* run: running; stopU: stopped, stop not yet reported by waitpid; stopR:
\* stopped, reported; contU: running, continue not yet reported; ex0/ex1:
\* terminated by exit(0) / exit(non-zero), not yet reaped; sig: terminated
\* by a signal, not yet reaped; free: no such process.
Live == {"run", "stopU", "stopR", "contU"}
Zombie == {"ex0", "ex1", "sig"}
Waitable == Zombie \cup {"stopU", "contU"}

\* The status word waitpid reports for a process in a waitable state.
StatusOf(st) ==
  CASE st = "ex0" -> "exit0"
    [] st = "ex1" -> "exit1"
    [] st = "sig" -> "signaled"
    [] st = "stopU" -> "stopped"
    [] st = "contU" -> "continued"

\* The state a process is left in once waitpid has reported it.
AfterWait(st) ==
  CASE st \in Zombie -> "free"
    [] st = "stopU" -> "stopR"
    [] st = "contU" -> "run"

WIFEXITED(status) == status \in {"exit0", "exit1"}
WIFSTOPPED(status) == status = "stopped"
WIFCONTINUED(status) == status = "continued"

\* os.waitpid(-1, WNOHANG | WUNTRACED | WCONTINUED): the set of possible
\* results <<pid, status>>; <<0, "exit0">> is the (0, 0) of "nothing to
\* report" (a status word of 0 reads as exit code 0); "ECHILD" when the
\* caller has no child at all.
WaitpidResults ==
  IF \A p \in PidSet : procs[p] = "free"
  THEN {"ECHILD"}
  ELSE IF \A p \in PidSet : procs[p] \notin Waitable
       THEN {<<NoPid, "exit0">>}
       ELSE {<<p, StatusOf(procs[p])>> : p \in {q \in PidSet : procs[q] \in Waitable}}

\* Mutant of ChldBranch: the pid == 0 test is left out.
ChldBranchWithoutPidTest(p, status) ==
  IF WIFCONTINUED(status) \/ WIFSTOPPED(status)
  THEN "return"
  ELSE IF WIFEXITED(status) THEN "requeue" ELSE "fallthrough"

\* Mutant of ChldBranch: the stopped test is left out and every remaining
\* status requeues.
ChldBranchWithoutStopTest(p, status) ==
  IF WIFCONTINUED(status) \/ p = NoPid THEN "return" ELSE "requeue"

\* The branch _chld takes on a waitpid result.
ChldBranch(p, status) ==
  IF WIFCONTINUED(status) \/ WIFSTOPPED(status) \/ p = NoPid
  THEN "return"
  ELSE IF WIFEXITED(status) THEN "requeue" ELSE "fallthrough"

\* Two free pids the supervisor cannot tell apart: the child table holds the
\* same (or no) entry for both and no local of the supervisor names either.
SamePidClass(p, q) ==
  /\ (p \in DOMAIN children) = (q \in DOMAIN children)
  /\ (p \in DOMAIN children => children[p] = children[q])
  /\ (p = pid) = (q = pid)
  /\ (p = ps) = (q = ps)

\* The pids fork may return: any free pid; of free pids of one class the
\* lowest stands for all (they are interchangeable).
ForkPids ==
  {p \in PidSet :
     /\ procs[p] = "free"
     /\ \A q \in PidSet : (q < p /\ procs[q] = "free") => ~SamePidClass(p, q)}

SupervisorRunning == supErr = "none" /\ pc # "done"
MainRuns == SupervisorRunning /\ hpc = "idle"

\* --------------------------------------------------- a worker process
None == "None"
Items == {"A", "B", "C"}
\* Keys a worker definition may hold besides type and target.
ConfigKeys == {"source", "sleep", "session"}

\* WORKER_REGISTRY after the two @worker(...) decorations.
WORKER_REGISTRY == [map |-> "map_worker", custom |-> "custom_worker"]
\* WORKER_REGISTRY.get(tag): None for a tag that is not registered.
RegistryGet(tag) ==
  IF tag \in DOMAIN WORKER_REGISTRY THEN WORKER_REGISTRY[tag] ELSE None

\* The worker definitions: the type tag ("absent": no type key), what the
\* target reference resolves to ("absent": no target key) and the other keys.
Definitions ==
  [type : {"map", "custom", "bogus", "absent"},
   target : {"ok", "nocolon", "nomodule", "nomember", "absent"},
   keys : SUBSET ConfigKeys]

\* _import(path): the callable, or the exception it raises: path.split(":")
\* not yielding two parts, import_module failing, getattr failing.
ImportResult(ref) ==
  CASE ref = "ok" -> "callable"
    [] ref = "nocolon" -> "ValueError"
    [] ref = "nomodule" -> "ImportError"
    [] ref = "nomember" -> "AttributeError"

\* WORKER_REGISTRY.get(target.get("type"))(event, **target): the strategy
\* entered, or the TypeError of calling None or of a missing required
\* parameter (target; source for map_worker).
Dispatch(d) ==
  LET strategy == RegistryGet(d.type)
  IN  IF strategy = None THEN "TypeError"
      ELSE IF d.target = "absent" THEN "TypeError"
      ELSE IF strategy = "map_worker" /\ "source" \notin d.keys THEN "TypeError"
      ELSE strategy

\* **kwargs of map_worker: what its named parameters do not take.
MapKwargs(d) == d.keys \ {"source", "sleep"}
\* Mutant of CustomKwargs: custom_worker declared with map_worker's named
\* parameters, which then take source and sleep away from **kwargs.
CustomKwargsLikeMap(d) == d.keys \ {"source", "sleep"}

\* **kwargs of custom_worker: neither type nor target is a key of d.keys.
CustomKwargs(d) == d.keys

\* source.get(), call number i: the script, then None for ever.
Checkout(i) == IF i <= Len(script) THEN script[i] ELSE None

Scripts == UNION {[1 .. n -> Items \cup {None}] : n \in 0 .. MaxScriptLen}

\* A definition under which the map strategy reaches its loop.
RunsMap(d) == Dispatch(d) = "map_worker" /\ ImportResult(d.target) = "callable"

\* The supervisor's specification holds no worker process of its own kind.
WorkerNotStarted ==
  /\ wdef = [type |-> "absent", target |-> "absent", keys |-> {}]
  /\ script = << >>
  /\ raisesOn = {}
  /\ wpc = "exited"
  /\ wevent = FALSE
  /\ taken = 0
  /\ item = None
  /\ wlog = << >>
  /\ wexit = "none"

\* ------------------------------------------------------------------ Init
SupInit ==
  /\ restarts = SeedList
  /\ qmutex = FALSE
  /\ children = << >>
  /\ event = FALSE
  /\ pc = "outer"
  /\ worker_name = NoName
  /\ ps = NoPid
  /\ slept = 0
  /\ hpc = "idle"
  /\ pid = NoPid
  /\ job = NoName
  /\ chldPending = FALSE
  /\ procs = [p \in PidSet |-> "free"]
  /\ procName = [p \in PidSet |-> NoName]
  /\ wflags = [p \in PidSet |-> FALSE]
  /\ supErr = "none"
  /\ pgrpSignalled = FALSE
  /\ execs = 0

Init == SupInit /\ WorkerNotStarted

\* ------------------------------------------------------- the main loop
\* while not event.is_set():   (outer loop)
OuterCheck ==
  /\ MainRuns /\ pc = "outer"
  /\ pc' = IF event THEN "done" ELSE "inner"
  /\ UNCHANGED <<restarts, qmutex, children, event, worker_name, ps, slept,
                 chldVars, osVars, supErr, rebootVars>>
  /\ UNCHANGED workerVars

\* Mutant of InnerCheck: the drain loop does not consult the flag.
InnerCheckIgnoringFlag ==
  /\ MainRuns /\ pc = "inner"
  /\ pc' = "get"
  /\ UNCHANGED <<restarts, qmutex, children, event, worker_name, ps, slept,
                 chldVars, osVars, supErr, rebootVars>>
  /\ UNCHANGED workerVars

\* while not event.is_set():   (drain loop)
InnerCheck ==
  /\ MainRuns /\ pc = "inner"
  /\ pc' = IF event THEN "sleep" ELSE "get"
  /\ UNCHANGED <<restarts, qmutex, children, event, worker_name, ps, slept,
                 chldVars, osVars, supErr, rebootVars>>
  /\ UNCHANGED workerVars

\* restarts.get_nowait() enters the queue's critical section.
GetLock ==
  /\ MainRuns /\ pc = "get"
  /\ qmutex' = TRUE
  /\ pc' = "locked"
  /\ UNCHANGED <<restarts, children, event, worker_name, ps, slept,
                 chldVars, osVars, supErr, rebootVars>>
  /\ UNCHANGED workerVars

\* restarts.get_nowait() returns the head, or raises Empty -> break.
GetNowait ==
  /\ MainRuns /\ pc = "locked"
  /\ qmutex' = FALSE
  /\ IF restarts = << >>
     THEN /\ pc' = "sleep"
          /\ UNCHANGED <<restarts, worker_name>>
     ELSE /\ worker_name' = Head(restarts)
          /\ restarts' = Tail(restarts)
          /\ pc' = "start"
  /\ UNCHANGED <<children, event, ps, slept, chldVars, osVars, supErr,
                 rebootVars>>
  /\ UNCHANGED workerVars

\* ps = Process(target=worker, args=(opts, worker_name)); ps.start()
StartProcess ==
  /\ MainRuns /\ pc = "start"
  /\ \E p \in ForkPids :
       /\ procs' = [procs EXCEPT ![p] = "run"]
       /\ procName' = [procName EXCEPT ![p] = worker_name]
       /\ wflags' = [wflags EXCEPT ![p] = FALSE]
       /\ ps' = p
  /\ pc' = "record"
  /\ UNCHANGED <<restarts, qmutex, children, event, worker_name, slept,
                 chldVars, chldPending, supErr, rebootVars>>
  /\ UNCHANGED workerVars

\* children[ps.pid] = worker_name
RecordChild ==
  /\ MainRuns /\ pc = "record"
  /\ children' = [p \in DOMAIN children \cup {ps} |->
                    IF p = ps THEN worker_name ELSE children[p]]
  /\ pc' = "inner"
  /\ worker_name' = NoName
  /\ ps' = NoPid
  /\ UNCHANGED <<restarts, qmutex, event, slept, chldVars, osVars, supErr,
                 rebootVars>>
  /\ UNCHANGED workerVars

\* time.sleep(5): one more tick of the interval passes.
SleepTick ==
  /\ MainRuns /\ pc = "sleep"
  /\ slept < SleepInterval
  /\ slept' = slept + 1
  /\ UNCHANGED <<restarts, qmutex, children, event, pc, worker_name, ps,
                 chldVars, osVars, supErr, rebootVars>>
  /\ UNCHANGED workerVars

\* time.sleep(5) returns: the interval has elapsed.
Sleep ==
  /\ MainRuns /\ pc = "sleep"
  /\ slept = SleepInterval
  /\ slept' = 0
  /\ pc' = "outer"
  /\ UNCHANGED <<restarts, qmutex, children, event, worker_name, ps,
                 chldVars, osVars, supErr, rebootVars>>
  /\ UNCHANGED workerVars

\* A signal handler returns to the main thread.  If the thread was inside
\* time.sleep(5), an interpreter that retries system calls interrupted by a
\* signal (Python 3.5 and later) goes on sleeping for the rest of the
\* interval, and an earlier one returns from the sleep at once; nothing in
\* the repository fixes the interpreter.
SleepAfterSignal ==
  /\ UNCHANGED <<worker_name, ps>>
  /\ IF pc = "sleep"
     THEN \/ UNCHANGED <<pc, slept>>
          \/ pc' = "outer" /\ slept' = 0
     ELSE UNCHANGED <<pc, slept>>

\* ------------------------------------------------ the SIGCHLD handler
\* The pending SIGCHLD is delivered: _chld starts on the main thread.
ChldEnter ==
  /\ SupervisorRunning /\ hpc = "idle" /\ chldPending
  /\ chldPending' = FALSE
  /\ hpc' = "waitpid"
  /\ UNCHANGED <<restarts, qmutex, children, event, mainVars, pid, job,
                 procs, procName, wflags, supErr, rebootVars>>
  /\ UNCHANGED workerVars

\* pid, status = os.waitpid(...); the branches; job = children[pid]
ChldWaitpid ==
  /\ SupervisorRunning /\ hpc = "waitpid"
  /\ \E r \in WaitpidResults :
       IF r = "ECHILD"
       THEN /\ supErr' = "ChildProcessError"
            /\ UNCHANGED <<hpc, pid, job, procs, procName, mainVars>>
       ELSE /\ procs' = IF r[1] = NoPid THEN procs
                        ELSE [procs EXCEPT ![r[1]] = AfterWait(procs[r[1]])]
            /\ procName' = IF r[1] # NoPid /\ procs[r[1]] \in Zombie
                           THEN [procName EXCEPT ![r[1]] = NoName]
                           ELSE procName
            /\ IF ChldBranch(r[1], r[2]) = "requeue"
               THEN IF r[1] \in DOMAIN children
                    THEN /\ pid' = r[1]
                         /\ job' = children[r[1]]
                         /\ hpc' = "put"
                         /\ UNCHANGED <<supErr, mainVars>>
                    ELSE /\ supErr' = "KeyError"
                         /\ UNCHANGED <<hpc, pid, job, mainVars>>
               ELSE /\ hpc' = "idle"
                    /\ SleepAfterSignal
                    /\ UNCHANGED <<pid, job, supErr>>
  /\ UNCHANGED <<restarts, qmutex, children, event, wflags, chldPending,
                 rebootVars>>
  /\ UNCHANGED workerVars

\* restarts.put(job); log.warn(...): put blocks for ever on a mutex the
\* interrupted get_nowait holds.
ChldPut ==
  /\ SupervisorRunning /\ hpc = "put"
  /\ IF qmutex
     THEN /\ supErr' = "deadlock"
          /\ UNCHANGED <<restarts, hpc>>
     ELSE /\ restarts' = Append(restarts, job)
          /\ hpc' = "del"
          /\ UNCHANGED supErr
  /\ UNCHANGED <<qmutex, children, event, mainVars, pid, job, osVars, rebootVars>>
  /\ UNCHANGED workerVars

\* del children[pid]
ChldDel ==
  /\ SupervisorRunning /\ hpc = "del"
  /\ children' = [p \in DOMAIN children \ {pid} |-> children[p]]
  /\ hpc' = "idle"
  /\ pid' = NoPid
  /\ job' = NoName
  /\ SleepAfterSignal
  /\ UNCHANGED <<restarts, qmutex, event, osVars, supErr, rebootVars>>
  /\ UNCHANGED workerVars

\* ------------------------------------------- SIGINT and SIGUSR1 handlers
\* Mutant of SigInt: the stop handler also terminates the running children.
SigIntKillingChildren ==
  /\ SupervisorRunning
  /\ event' = TRUE
  /\ procs' = [p \in PidSet |-> IF procs[p] \in Live THEN "sig" ELSE procs[p]]
  /\ chldPending' = (chldPending \/ \E p \in PidSet : procs[p] \in Live)
  /\ UNCHANGED <<restarts, qmutex, children, mainVars, chldVars, procName,
                 wflags, supErr, rebootVars>>
  /\ UNCHANGED workerVars

\* _sig_int: log.fatal(...); event.set()
SigInt ==
  /\ SupervisorRunning
  /\ event' = TRUE
  /\ IF hpc = "idle" THEN SleepAfterSignal ELSE UNCHANGED mainVars
  /\ UNCHANGED <<restarts, qmutex, children, chldVars, osVars, supErr,
                 rebootVars>>
  /\ UNCHANGED workerVars

\* reboot: os.getpgid() is called without its required argument and raises
\* TypeError before os.kill and os.execv are reached.
Reboot ==
  /\ SupervisorRunning
  /\ supErr' = "TypeError"
  /\ UNCHANGED <<restarts, qmutex, children, event, mainVars, chldVars,
                 osVars, rebootVars>>
  /\ UNCHANGED workerVars

\* -------------------------------------------------- the worker processes
\* Mutant of WorkerSigInt: one Event is shared by all the processes.
WorkerSigIntOnSharedEvent(p) ==
  /\ SupervisorRunning
  /\ procs[p] \in {"run", "contU"}
  /\ wflags' = [q \in PidSet |-> wflags[q] \/ procs[q] \in Live]
  /\ event' = TRUE
  /\ UNCHANGED <<restarts, qmutex, children, mainVars, chldVars, procs,
                 procName, chldPending, supErr, rebootVars>>
  /\ UNCHANGED workerVars

\* A running worker process receives SIGINT: the _sig_int its own
\* mk_sigint_event installed sets the Event that call created.
WorkerSigInt(p) ==
  /\ SupervisorRunning
  /\ procs[p] \in {"run", "contU"}
  /\ wflags' = [wflags EXCEPT ![p] = TRUE]
  /\ UNCHANGED <<restarts, qmutex, children, event, mainVars, chldVars, procs,
                 procName, chldPending, supErr, rebootVars>>
  /\ UNCHANGED workerVars

\* A worker process returns from worker() or dies of an uncaught exception.
ChildExit(p) ==
  /\ SupervisorRunning
  /\ procs[p] \in {"run", "contU"}
  /\ \E st \in {"ex0", "ex1"} : procs' = [procs EXCEPT ![p] = st]
  /\ wflags' = [wflags EXCEPT ![p] = FALSE]
  /\ chldPending' = TRUE
  /\ UNCHANGED <<restarts, qmutex, children, event, mainVars, chldVars,
                 procName, supErr, rebootVars>>
  /\ UNCHANGED workerVars

\* A worker process is killed by a signal.
ChildKilled(p) ==
  /\ SupervisorRunning
  /\ procs[p] \in Live
  /\ procs' = [procs EXCEPT ![p] = "sig"]
  /\ wflags' = [wflags EXCEPT ![p] = FALSE]
  /\ chldPending' = TRUE
  /\ UNCHANGED <<restarts, qmutex, children, event, mainVars, chldVars,
                 procName, supErr, rebootVars>>
  /\ UNCHANGED workerVars

\* A worker process is stopped (SIGSTOP, SIGTSTP).
ChildStopped(p) ==
  /\ SupervisorRunning
  /\ procs[p] \in {"run", "contU"}
  /\ procs' = [procs EXCEPT ![p] = "stopU"]
  /\ chldPending' = TRUE
  /\ UNCHANGED <<restarts, qmutex, children, event, mainVars, chldVars,
                 procName, wflags, supErr, rebootVars>>
  /\ UNCHANGED workerVars

\* A stopped worker process is continued (SIGCONT).
ChildContinued(p) ==
  /\ SupervisorRunning
  /\ procs[p] \in {"stopU", "stopR"}
  /\ procs' = [procs EXCEPT ![p] = "contU"]
  /\ chldPending' = TRUE
  /\ UNCHANGED <<restarts, qmutex, children, event, mainVars, chldVars,
                 procName, wflags, supErr, rebootVars>>
  /\ UNCHANGED workerVars

MainStep ==
  \/ OuterCheck
  \/ InnerCheck
  \/ GetLock
  \/ GetNowait
  \/ StartProcess
  \/ RecordChild
  \/ SleepTick
  \/ Sleep

ChldStep ==
  \/ ChldEnter
  \/ ChldWaitpid
  \/ ChldPut
  \/ ChldDel

Next ==
  \/ MainStep
  \/ ChldStep
  \/ SigInt
  \/ Reboot
  \/ \E p \in PidSet : WorkerSigInt(p)
  \/ \E p \in PidSet : ChildExit(p)
  \/ \E p \in PidSet : ChildKilled(p)
  \/ \E p \in PidSet : ChildStopped(p)
  \/ \E p \in PidSet : ChildContinued(p)

Spec == Init /\ [][Next]_vars

\* ------------------------------------------ the worker process, stepwise
LogCall(x, kw) == [op |-> "call", item |-> x, kw |-> kw]
LogReturn == [op |-> "return", item |-> None, kw |-> {}]
LogSleep == [op |-> "sleep", item |-> None, kw |-> {}]

\* The process ends: worker() returned, or an exception left it.
WorkerExits(how) ==
  /\ wpc' = "exited"
  /\ wexit' = how

\* The inputs of a worker process: a definition, and for one that reaches
\* the map loop the source's script and the target's raising items.
WorkerInit ==
  /\ SupInit
  /\ wdef \in Definitions
  /\ IF RunsMap(wdef)
     THEN script \in Scripts /\ raisesOn \in SUBSET Items
     ELSE script = << >> /\ raisesOn = {}
  /\ wpc = "boot"
  /\ wevent = FALSE
  /\ taken = 0
  /\ item = None
  /\ wlog = << >>
  /\ wexit = "none"

\* config = Config(...); event = mk_sigint_event();
\* target = config.get(target_name).dict(); log.info(...)
WBoot ==
  /\ wpc = "boot"
  /\ wpc' = "dispatch"
  /\ UNCHANGED <<wdef, script, raisesOn, wevent, taken, item, wlog, wexit>>
  /\ UNCHANGED supVars

\* return WORKER_REGISTRY.get(target.get("type"))(event, **target)
WDispatch ==
  /\ wpc = "dispatch"
  /\ IF Dispatch(wdef) = "TypeError"
     THEN WorkerExits("TypeError")
     ELSE /\ wpc' = IF Dispatch(wdef) = "map_worker" THEN "map_import"
                    ELSE "custom_import"
          /\ UNCHANGED wexit
  /\ UNCHANGED <<wdef, script, raisesOn, wevent, taken, item, wlog>>
  /\ UNCHANGED supVars

\* map_worker: target = _import(target)
MapImport ==
  /\ wpc = "map_import"
  /\ IF ImportResult(wdef.target) = "callable"
     THEN wpc' = "map_check" /\ UNCHANGED wexit
     ELSE WorkerExits(ImportResult(wdef.target))
  /\ UNCHANGED <<wdef, script, raisesOn, wevent, taken, item, wlog>>
  /\ UNCHANGED supVars

\* Mutant of MapCheck: the loop never looks at the flag.
MapCheckIgnoringFlag ==
  /\ wpc = "map_check"
  /\ wpc' = "map_get"
  /\ UNCHANGED <<wdef, script, raisesOn, wevent, taken, item, wlog, wexit>>
  /\ UNCHANGED supVars

\* map_worker: while not event.is_set():
MapCheck ==
  /\ wpc = "map_check"
  /\ IF wevent
     THEN WorkerExits("returned")
     ELSE wpc' = "map_get" /\ UNCHANGED wexit
  /\ UNCHANGED <<wdef, script, raisesOn, wevent, taken, item, wlog>>
  /\ UNCHANGED supVars

\* map_worker: item = source.get()
MapGet ==
  /\ wpc = "map_get"
  /\ taken < Len(script) + MaxIdle
  /\ taken' = taken + 1
  /\ item' = Checkout(taken + 1)
  /\ wpc' = "map_got"
  /\ UNCHANGED <<wdef, script, raisesOn, wevent, wlog, wexit>>
  /\ UNCHANGED supVars

\* map_worker: if item is not None: with item as item_contents: the call
\* of target(item_contents, **kwargs) begins; else: time.sleep(sleep)
MapBranch ==
  /\ wpc = "map_got"
  /\ IF item # None
     THEN /\ wlog' = Append(wlog, LogCall(item, MapKwargs(wdef)))
          /\ wpc' = "map_call"
     ELSE /\ wlog' = Append(wlog, LogSleep)
          /\ wpc' = "map_check"
  /\ UNCHANGED <<wdef, script, raisesOn, wevent, taken, item, wexit>>
  /\ UNCHANGED supVars

\* Mutant of MapTargetEnds: the loop catches the target's exception and
\* goes on with the next checkout.
MapTargetEndsCaught ==
  /\ wpc = "map_call"
  /\ wlog' = IF item \in raisesOn THEN wlog ELSE Append(wlog, LogReturn)
  /\ wpc' = "map_check"
  /\ UNCHANGED <<wdef, script, raisesOn, wevent, taken, item, wexit>>
  /\ UNCHANGED supVars

\* map_worker: target(item_contents, **kwargs) returns, or raises: nothing
\* catches the exception and it leaves map_worker and worker().
MapTargetEnds ==
  /\ wpc = "map_call"
  /\ IF item \in raisesOn
     THEN WorkerExits("TargetError") /\ UNCHANGED wlog
     ELSE /\ wlog' = Append(wlog, LogReturn)
          /\ wpc' = "map_check"
          /\ UNCHANGED wexit
  /\ UNCHANGED <<wdef, script, raisesOn, wevent, taken, item>>
  /\ UNCHANGED supVars

\* custom_worker: target = _import(target)
CustomImport ==
  /\ wpc = "custom_import"
  /\ IF ImportResult(wdef.target) = "callable"
     THEN wpc' = "custom_call" /\ UNCHANGED wexit
     ELSE WorkerExits(ImportResult(wdef.target))
  /\ UNCHANGED <<wdef, script, raisesOn, wevent, taken, item, wlog>>
  /\ UNCHANGED supVars

\* custom_worker: target(event=event, **kwargs) is called
CustomCall ==
  /\ wpc = "custom_call"
  /\ wlog' = Append(wlog, LogCall(None, CustomKwargs(wdef) \cup {"event"}))
  /\ wpc' = "custom_running"
  /\ UNCHANGED <<wdef, script, raisesOn, wevent, taken, item, wexit>>
  /\ UNCHANGED supVars

\* custom_worker: the target returns, and with it custom_worker and worker()
CustomTargetReturns ==
  /\ wpc = "custom_running"
  /\ wlog' = Append(wlog, LogReturn)
  /\ WorkerExits("returned")
  /\ UNCHANGED <<wdef, script, raisesOn, wevent, taken, item>>
  /\ UNCHANGED supVars

\* custom_worker: the target raises
CustomTargetRaises ==
  /\ wpc = "custom_running"
  /\ WorkerExits("TargetError")
  /\ UNCHANGED <<wdef, script, raisesOn, wevent, taken, item, wlog>>
  /\ UNCHANGED supVars

\* The worker's _sig_int (installed by its mk_sigint_event): event.set()
WSigInt ==
  /\ wpc \notin {"boot", "exited"}
  /\ wevent' = TRUE
  /\ UNCHANGED <<wdef, script, raisesOn, wpc, taken, item, wlog, wexit>>
  /\ UNCHANGED supVars

WorkerNext ==
  \/ WBoot
  \/ WDispatch
  \/ MapImport
  \/ MapCheck
  \/ MapGet
  \/ MapBranch
  \/ MapTargetEnds
  \/ CustomImport
  \/ CustomCall
  \/ CustomTargetReturns
  \/ CustomTargetRaises
  \/ WSigInt

WorkerSpec == WorkerInit /\ [][WorkerNext]_vars


\* The scheduling the interpreter guarantees: a started handler keeps
\* executing while it has a step to take, and the main loop executes
\* whenever no handler runs, so that no stream of signals holds it up for
\* ever.  Nothing obliges a signal to arrive or a worker to exit.
FairSpec == Spec /\ SF_vars(MainStep) /\ WF_vars(ChldStep)

\* ------------------------------------------------------------ vocabulary
Range(f) == {f[x] : x \in DOMAIN f}
\* PENDING: the name is in the restart queue.
Pending(n) == \E i \in 1 .. Len(restarts) : restarts[i] = n
\* RUNNING: the name is the value of some pid entry of the child table.
Running(n) == n \in Range(children)
\* The processes of name n that are alive.
LiveProcs(n) == {p \in PidSet : procs[p] \in Live /\ procName[p] = n}
\* A step in which the system gains a process.
Spawned == \E p \in PidSet : procs[p] = "free" /\ procs'[p] # "free"

\* ---------------------------------------------------------------- claims

\* C1 (as claimed): whatever the exit status of a terminated child that the
\* child table records (exit code 0, non-zero exit code, death by signal),
\* the handler that reaps it goes on to put the recorded name back on the
\* restart queue and to delete the pid.
C1_AnyExitStatusRequeued ==
  [][\A p \in PidSet :
       (hpc = "waitpid" /\ procs[p] \in Zombie /\ procs'[p] = "free"
          /\ p \in DOMAIN children)
       => (hpc' = "put" /\ pid' = p /\ job' = children[p])]_vars

\* C2 (as claimed): at every instant each worker name is in exactly one of
\* PENDING and RUNNING.
C2_ExactlyOneOfPendingRunning ==
  \A n \in WorkerNames : Pending(n) # Running(n)

\* C3 (as claimed): every termination gets its restart and log record: once
\* every delivered exit notification has been handled (none pending, no
\* handler running), no terminated child is left unreaped.
C3_NoTerminationLeftBehind ==
  (SupervisorRunning /\ ~chldPending /\ hpc = "idle")
    => \A p \in PidSet : procs[p] \notin Zombie

\* C4 (as claimed): once the shutdown flag is set, no step spawns a process
\* or adds a pid to the child table, wherever the spawn loop stands.
C4_NoSpawnAfterStop ==
  [][event => (~Spawned /\ DOMAIN children' \subseteq DOMAIN children)]_vars

\* The spawn loop stands at a flag check, sleeps, or has ended: it is not
\* between the drain loop's flag check and the recording of a pid.
AtFlagCheck == pc \in {"outer", "inner", "sleep", "done"}

\* C4 (amended): once the shutdown flag is set and the spawn loop stands at
\* a flag check (or sleeps), it never again dequeues a name, spawns a
\* process or adds a pid to the child table; the names pending stay in the
\* restart queue, which from then on only grows at its tail.
C4_NoSpawnOnceStopObserved ==
  [][(event /\ AtFlagCheck)
       => /\ event' /\ AtFlagCheck'
          /\ ~Spawned
          /\ DOMAIN children' \subseteq DOMAIN children
          /\ Len(restarts') >= Len(restarts)
          /\ SubSeq(restarts', 1, Len(restarts)) = restarts]_vars

\* C4 witness: the stop was observed by the drain loop while a name was
\* still pending and a child was running.
C4_Witness ==
  /\ event /\ pc = "sleep" /\ supErr = "none"
  /\ restarts # << >>
  /\ \E p \in DOMAIN children : procs[p] = "run"

\* C5 (as claimed, and granting that no reboot is requested either): with
\* no stop request, every name of the seed list eventually has a pid
\* recorded in the child table.
C5_EverySeedSpawned ==
  \A n \in WorkerNames : <>(event \/ supErr = "TypeError" \/ Running(n))

\* C6 (as claimed): no exit of a worker process, however early, ends or
\* hangs the supervisor.
C6_SupervisorSurvivesWorkerExit ==
  supErr \notin {"KeyError", "ChildProcessError", "deadlock"}

\* The checkouts the map loop has dealt with: all it made, but for one it
\* has only just received.
Handled == IF wpc = "map_got" THEN taken - 1 ELSE taken

\* What a map worker must have done after dealing with checkouts 1 .. n:
\* a sleep for each None; a call and a return for each item, without the
\* return when the call is still running or has raised.
RECURSIVE ExpectedLog(_)
ExpectedLog(n) ==
  IF n = 0 THEN << >>
  ELSE ExpectedLog(n - 1) \o
       (IF Checkout(n) = None THEN <<LogSleep>>
        ELSE IF n = taken /\ (wpc = "map_call" \/ wexit = "TargetError")
             THEN <<LogCall(Checkout(n), MapKwargs(wdef))>>
             ELSE <<LogCall(Checkout(n), MapKwargs(wdef)), LogReturn>>)

\* C7: a map worker calls its target on the items in the order the source
\* yields them and sleeps once for each empty checkout; a checkout of an
\* item on which the target raises is the last checkout the process makes,
\* and the process ends with that exception and no other way on it.
C7_MapInOrderUncaught ==
  RunsMap(wdef) =>
    /\ wlog = ExpectedLog(Handled)
    /\ \A i \in 1 .. taken :
         Checkout(i) \in raisesOn
           => /\ i = taken
              /\ wpc \in {"map_got", "map_call"} \/ wexit = "TargetError"
    /\ wexit = "TargetError" => (taken >= 1 /\ Checkout(taken) \in raisesOn)

\* C7 witness: the source yielded A, B, None, C and the target was called
\* with A, then B, then after one sleep with C.
C7_Witness ==
  /\ RunsMap(wdef)
  /\ script = <<"A", "B", None, "C">>
  /\ taken = 4 /\ wpc = "map_check"
  /\ wlog = <<LogCall("A", MapKwargs(wdef)), LogReturn,
              LogCall("B", MapKwargs(wdef)), LogReturn,
              LogSleep,
              LogCall("C", MapKwargs(wdef)), LogReturn>>

\* The calls of the target the process has made.
Calls == SelectSeq(wlog, LAMBDA e : e.op = "call")

\* C8: a custom worker calls its target at most once, with event and every
\* configured key other than type and target; it returns exactly when the
\* target has returned, and the shutdown flag does not make it return.
C8_CustomCalledOnce ==
  Dispatch(wdef) = "custom_worker" =>
    /\ Len(Calls) <= 1
    /\ \A i \in 1 .. Len(Calls) : Calls[i].kw = wdef.keys \cup {"event"}
    /\ wexit = "returned"
         <=> wlog = <<LogCall(None, wdef.keys \cup {"event"}), LogReturn>>
    /\ wpc = "custom_running"
         <=> wlog = <<LogCall(None, wdef.keys \cup {"event"})>> /\ wexit = "none"

\* C8 witness: a custom worker configured with every key, whose target was
\* called and returned after the shutdown flag was set.
C8_Witness ==
  /\ Dispatch(wdef) = "custom_worker"
  /\ wdef.keys = ConfigKeys
  /\ wevent
  /\ Len(Calls) = 1
  /\ wexit = "returned"

\* C9: a name whose process is alive is neither in the restart queue nor
\* held by the spawn loop for spawning, and no two live processes run the
\* same name.
C9_NoRestartWhileAlive ==
  \A n \in WorkerNames :
    /\ Cardinality(LiveProcs(n)) <= 1
    /\ (Pending(n) \/ (pc \in {"start"} /\ worker_name = n)) => LiveProcs(n) = {}

\* C9 witness: every worker is alive, one of them was reported stopped to
\* the handler, nothing is pending and the supervisor sleeps.
C9_Witness ==
  /\ pc = "sleep" /\ supErr = "none" /\ hpc = "idle" /\ ~chldPending
  /\ restarts = << >>
  /\ \A n \in WorkerNames : Cardinality(LiveProcs(n)) = 1
  /\ \E p \in PidSet : procs[p] = "stopR"

\* C10 (as claimed): the reboot handler broadcasts the stop signal to the
\* process group and then replaces the supervisor by a fresh instance whose
\* restart queue is the seed list and whose child table is empty.
C10_RebootReplacesSupervisor ==
  [][Reboot => /\ pgrpSignalled'
               /\ execs' = execs + 1
               /\ restarts' = SeedList
               /\ children' = << >>
               /\ supErr' = "none"]_vars

\* C11 (as claimed): a worker process whose type tag is not registered ends
\* with a ConfigurationError, having run no strategy.
C11_UnknownTypeIsConfigurationError ==
  (RegistryGet(wdef.type) = None /\ wpc = "exited")
    => (wexit = "ConfigurationError" /\ wlog = << >>)

\* C12: a step that sets the supervisor's shutdown flag changes neither the
\* restart queue nor the child table nor the state of any process: every
\* child running before the stop runs after it.
C12_StopOnlySetsFlag ==
  [][(~event /\ event')
       => /\ restarts' = restarts
          /\ children' = children
          /\ procs' = procs
          /\ procName' = procName
          /\ chldPending' = chldPending]_vars

\* C12 witness: the stop has been handled and every worker is still running
\* and recorded.
C12_Witness ==
  /\ event /\ supErr = "none"
  /\ \A n \in WorkerNames :
       \E p \in DOMAIN children : children[p] = n /\ procs[p] = "run"

\* C13 (as claimed, and only where neither the spawn loop stands between
\* starting a process and recording it nor the handler is at work): the
\* keys of the child table are exactly the processes spawned and not yet
\* reaped, each mapped to the name it was spawned for.
C13_TableIsTheLiveProcesses ==
  (SupervisorRunning /\ hpc = "idle" /\ pc # "record")
    => /\ DOMAIN children = {p \in PidSet : procs[p] # "free"}
       /\ \A p \in DOMAIN children : children[p] = procName[p]

\* C15 (as claimed): whenever the handler can reap an exited child, the
\* child table holds that pid with the name it runs, and the handler never
\* fails or blocks.
C15_HandlerFindsEveryExitedPid ==
  /\ \A p \in PidSet :
       procs[p] \in {"ex0", "ex1"}
         => (p \in DOMAIN children /\ children[p] = procName[p])
  /\ supErr \notin {"KeyError", "deadlock", "ChildProcessError"}

\* The handler's waitpid step in which a child exists and no terminated
\* child is reaped: waitpid reported a stopped child, a continued child or
\* the null pid.
ReportsNoTermination ==
  /\ hpc = "waitpid"
  /\ hpc' # "waitpid" \/ supErr' = "KeyError"
  /\ \E p \in PidSet : procs[p] # "free"
  /\ \A p \in PidSet : procs[p] \in Zombie => procs'[p] = procs[p]

\* C19: when waitpid reports a stopped child, a continued child or the null
\* pid, the handler returns and leaves restart queue and child table alone.
C19_StoppedContinuedNullIgnored ==
  [][ReportsNoTermination
       => /\ hpc' = "idle"
          /\ restarts' = restarts
          /\ children' = children
          /\ supErr' = "none"]_vars

\* C19 witness: a recorded child was reported stopped to the handler, which
\* returned; the child is still recorded and its name is not pending.
C19_Witness ==
  /\ hpc = "idle" /\ supErr = "none"
  /\ \E p \in DOMAIN children :
       /\ procs[p] = "stopR"
       /\ children[p] = procName[p]
       /\ ~Pending(children[p])

\* What a map worker whose flag is set does with the item in progress and at
\* the loop's test: a call of the target that returns is completed and the
\* with block left, which hands the item back; the loop's test then ends
\* the strategy without another checkout.
FinishesItemAndReturns ==
  /\ (wpc = "map_call" /\ item \notin raisesOn /\ wpc' # wpc)
       => (wlog' = Append(wlog, LogReturn) /\ wpc' = "map_check"
           /\ taken' = taken)
  /\ (wpc = "map_check" /\ wpc' # wpc)
       => (wpc' = "exited" /\ wexit' = "returned" /\ wlog' = wlog
           /\ taken' = taken)

\* C16 as stated: once the flag of a map worker is set, the item in
\* progress is completed and released, no further checkout from the source
\* is performed, and the strategy returns.
C16_NoCheckoutOnceFlagSet ==
  [][(RunsMap(wdef) /\ wevent)
       => (taken' = taken /\ FinishesItemAndReturns)]_vars

\* C16 amended: the flag is read only by the loop's test.  With the flag
\* set, the item in progress is completed and released, the loop's test
\* that follows returns without a checkout, and the only checkout a worker
\* with its flag set can make is the one of an iteration whose test ran
\* before the flag was set; every other step leaves the count of checkouts
\* alone.
C16_FlagReadAtLoopTestOnly ==
  [][(RunsMap(wdef) /\ wevent)
       => /\ FinishesItemAndReturns
          /\ taken' # taken => (wpc = "map_get" /\ taken' = taken + 1)
          /\ wpc' = "map_get" => wpc = "map_get"]_vars

\* C16 witness: a map worker whose flag was set returned after completing
\* an item, with the source's next item never checked out.
C16_Witness ==
  /\ RunsMap(wdef) /\ wevent /\ wexit = "returned"
  /\ taken >= 1 /\ taken < Len(script)
  /\ Checkout(taken) # None /\ Checkout(taken + 1) # None
  /\ wlog # << >> /\ wlog[Len(wlog)] = LogReturn

\* C18: when the handler has requeued an exited child's name and returns
\* while the main loop is inside time.sleep(5) with part of the interval
\* still to come, the main loop leaves the sleep at once.
C18_ExitNotificationEndsSleep ==
  [][(pc = "sleep" /\ slept < SleepInterval /\ hpc = "del" /\ hpc' = "idle")
       => pc' = "outer"]_vars

\* C14: no step clears a shutdown flag that is set, neither the
\* supervisor's nor that of a worker process that lives on; a step that
\* sets the supervisor's flag changes no worker's flag, and a step that
\* sets the flag of one worker changes neither the supervisor's flag nor
\* the flag of another worker.
C14_FlagsMonotonicAndIndependent ==
  [][/\ event => event'
     /\ \A p \in PidSet : (wflags[p] /\ procs'[p] \in Live) => wflags'[p]
     /\ event' # event => wflags' = wflags
     /\ \A p \in PidSet :
          (~wflags[p] /\ wflags'[p])
            => /\ event' = event
               /\ \A q \in PidSet \ {p} : wflags'[q] = wflags[q]]_vars

\* C14 witness: the supervisor's flag and one worker's flag have been set
\* while another worker runs on with its flag unset.
C14_Witness ==
  /\ event
  /\ \E p, q \in PidSet :
       /\ procs[p] \in Live /\ wflags[p]
       /\ procs[q] = "run" /\ ~wflags[q]

\* C17 (as claimed, and granting that no reboot is requested either): with
\* no stop request, a name whose process has exited gets a new process,
\* however often that has happened before.
C17_ExitedNameSpawnedAgain ==
  \A p \in PidSet : \A n \in WorkerNames :
    (procs[p] \in {"ex0", "ex1"} /\ procName[p] = n)
      ~> (event \/ supErr = "TypeError" \/ LiveProcs(n) # {})

\* C20 (as claimed): once the supervisor's flag is set, the main loop ends,
\* by leaving the outer loop or with the exception that ended the process.
C20_StopEndsMainLoop ==
  event ~> (pc = "done" \/ supErr \in {"KeyError", "ChildProcessError",
                                       "TypeError"})

====
